---- MODULE Spec2Model ----
(***************************************************************************)
(* cirq/linalg/tolerance.py: approximate equality of scalars and matrices. *)
(*                                                                         *)
(* Number representation.  A float is either NaN or an exact fixed-point   *)
(* number: an integer count of 1e-10.  Arithmetic on the counts is exact   *)
(* (rounding, infinities and complex values are outside the model).  A     *)
(* relative tolerance is a rational num/den.  An ndarray is a shape (<<>>  *)
(* for a scalar, <<n>> for a vector) and its flat data.                    *)
(***************************************************************************)
EXTENDS Integers, Sequences, FiniteSets

VARIABLES a, b, period, rtol, atol, equal_nan,   \* the caller's arguments
          ZERO, DEFAULT,                         \* Tolerance.ZERO, Tolerance.DEFAULT
          pc, fn, self, ret, raised              \* the call in progress and its outcome

vars == <<a, b, period, rtol, atol, equal_nan, ZERO, DEFAULT, pc, fn, self, ret, raised>>

inputs == <<a, b, period, rtol, atol, equal_nan>>

(***************************************************************************)
(* Bounds of the model.                                                    *)
(***************************************************************************)
MaxLen == 2
MaxScalar == 2
MaxVal == 4
MaxPeriod == 4

(***************************************************************************)
(* Floats.                                                                 *)
(***************************************************************************)
\* 1e-4 as a count of 1e-10: the step of the coarse input grid.
Grid == 1000 * 1000

NaN == [nan |-> TRUE, v |-> 0]

F(n) == [nan |-> FALSE, v |-> n]

Rat(n, d) == [num |-> n, den |-> d]

\* abs(x)
fabs(x) == IF x.nan THEN NaN ELSE F(IF x.v < 0 THEN -x.v ELSE x.v)

\* x - y
fsub(x, y) == IF x.nan \/ y.nan THEN NaN ELSE F(x.v - y.v)

\* x + y
fadd(x, y) == IF x.nan \/ y.nan THEN NaN ELSE F(x.v + y.v)

\* x % p for p > 0: the result has the sign of the divisor
fmod(x, p) == IF x.nan THEN NaN ELSE F(x.v % p)

\* x / 2 (inputs are even counts, so the half is exact)
half(p) == p \div 2

\* variant: the comparison is strict
le_tol_strict(x, y, r, t) ==
    /\ ~x.nan
    /\ ~y.nan
    /\ x.v < t + ((r.num * y.v) \div r.den)

\* x <= atol + rtol * y.  Every value is an integer count, so x <= q holds
\* exactly when x <= floor(q); any comparison with a NaN is false.
le_tol(x, y, r, t) ==
    /\ ~x.nan
    /\ ~y.nan
    /\ x.v <= t + ((r.num * y.v) \div r.den)

(***************************************************************************)
(* Module constants.                                                       *)
(***************************************************************************)
DEFAULT_RTOL == Rat(1, 100000)

DEFAULT_ATOL == 100

DEFAULT_EQUAL_NAN == FALSE

(***************************************************************************)
(* numpy: shapes, broadcasting, zeros, allclose.                           *)
(***************************************************************************)
Scalar(x) == [shape |-> <<>>, data |-> <<x>>]

Vector(s) == [shape |-> <<Len(s)>>, data |-> s]

np_shape(x) == x.shape

Size(shape) == IF shape = <<>> THEN 1 ELSE shape[1]

np_zeros(shape) == [shape |-> shape, data |-> [i \in 1..Size(shape) |-> F(0)]]

Broadcastable(s, t) ==
    \/ s = <<>>
    \/ t = <<>>
    \/ s[1] = t[1]
    \/ s[1] = 1
    \/ t[1] = 1

BroadcastShape(s, t) ==
    IF s = <<>> THEN t
    ELSE IF t = <<>> THEN s
    ELSE IF s[1] = 1 THEN t
    ELSE s

\* element i of x broadcast to a larger shape
At(x, i) == IF Size(x.shape) = 1 THEN x.data[1] ELSE x.data[i]

\* numpy.isclose on one pair of elements
np_isclose(x, y, r, t, en) ==
    IF ~x.nan /\ ~y.nan
    THEN le_tol(fabs(fsub(x, y)), fabs(y), r, t)
    ELSE en /\ x.nan /\ y.nan

\* the outcome of a call: the value returned (none when it raises) and the
\* exception raised ("none" when it returns)
Return(v) == [raised |-> "none", val |-> {v}]

Raise(e) == [raised |-> e, val |-> {}]

\* numpy.allclose(x, y, rtol, atol, equal_nan)
np_allclose(x, y, r, t, en) ==
    IF ~Broadcastable(x.shape, y.shape)
    THEN Raise("ValueError")
    ELSE Return(\A i \in 1..Size(BroadcastShape(x.shape, y.shape)) :
                    np_isclose(At(x, i), At(y, i), r, t, en))

(***************************************************************************)
(* The six free functions.                                                 *)
(***************************************************************************)
\* variant: equal_nan is not handed on to numpy.allclose
all_close_drops_equal_nan(x, y, r, t, en) == np_allclose(x, y, r, t, DEFAULT_EQUAL_NAN)

\* variant: a shape error is swallowed and reported as "not close"
all_close_swallows_error(x, y, r, t, en) ==
    IF np_allclose(x, y, r, t, en).raised = "none"
    THEN np_allclose(x, y, r, t, en)
    ELSE Return(FALSE)

all_close(x, y, r, t, en) == np_allclose(x, y, r, t, en)

all_near_zero(x, r, t, en) == all_close(x, np_zeros(np_shape(x)), r, t, en)

\* variant: the half period is not added before the modulo
Fold_without_shift(v, p) == fsub(fmod(v, p), F(half(p)))

\* (v + period / 2) % period - period / 2
Fold(v, p) == fsub(fmod(fadd(v, F(half(p))), p), F(half(p)))

\* (np.array(a) + (period / 2)) % period - period / 2, elementwise
FoldAll(x, p) == [shape |-> x.shape, data |-> [i \in 1..Len(x.data) |-> Fold(x.data[i], p)]]

all_near_zero_mod(x, p, r, t, en) ==
    all_close(FoldAll(x, p), np_zeros(np_shape(x)), r, t, en)

\* variant: the relative term scales with |a| instead of |b|
close_scaled_by_a(x, y, r, t) == le_tol(fabs(fsub(x, y)), fabs(x), r, t)

close(x, y, r, t) == le_tol(fabs(fsub(x, y)), fabs(y), r, t)

near_zero(x, t) == le_tol(fabs(x), F(0), Rat(0, 1), t)

\* variant: the half period is not subtracted after the modulo
near_zero_mod_not_recentred(x, p, t) == near_zero(fmod(fadd(x, F(half(p))), p), t)

near_zero_mod(x, p, t) == near_zero(Fold(x, p), t)

(***************************************************************************)
(* class Tolerance.                                                        *)
(***************************************************************************)
\* variant: the constructor keeps the default atol instead of its argument
Tolerance_ignores_atol(r, t, en) == [rtol |-> r, atol |-> DEFAULT_ATOL, equal_nan |-> en]

Tolerance(r, t, en) == [rtol |-> r, atol |-> t, equal_nan |-> en]

Tolerance_all_close(t, x, y) == all_close(x, y, t.rtol, t.atol, DEFAULT_EQUAL_NAN)

Tolerance_all_near_zero(t, x) == all_near_zero(x, t.rtol, t.atol, t.equal_nan)

Tolerance_all_near_zero_mod(t, x, p) ==
    all_near_zero_mod(x, p, t.rtol, t.atol, t.equal_nan)

Tolerance_close(t, x, y) == close(x, y, t.rtol, t.atol)

Tolerance_near_zero(t, x) == near_zero(x, t.atol)

Tolerance_near_zero_mod(t, x, p) == near_zero_mod(x, p, t.atol)

\* variant: ZERO is built with the default arguments
ZERO_init_with_defaults == [rtol |-> DEFAULT_RTOL, atol |-> DEFAULT_ATOL,
                            equal_nan |-> DEFAULT_EQUAL_NAN]

\* Tolerance.ZERO = Tolerance(rtol=0, atol=0)
ZERO_init == Tolerance(Rat(0, 1), 0, DEFAULT_EQUAL_NAN)

\* Tolerance.DEFAULT = Tolerance()
DEFAULT_init == Tolerance(DEFAULT_RTOL, DEFAULT_ATOL, DEFAULT_EQUAL_NAN)

(***************************************************************************)
(* Inputs.  Three families of arguments, each small: pairs of arrays,      *)
(* pairs of scalars with every tolerance, and arrays with a period.        *)
(***************************************************************************)
\* vectors of length 0..n over the elements E
VectorsOver(E, n) == UNION {[1..k -> E] : k \in 0..n}

\* scalars on the coarse grid, each with and without an offset of 1e-10
FineScalars(m) == {F(k * Grid + j) : k \in (-m)..m, j \in {0, 1}} \cup {NaN}

IsScalar(x) == x.shape = <<>>

RTols == {Rat(-1, 1), Rat(0, 1), DEFAULT_RTOL, Rat(1, 2), Rat(1, 1)}

ATols == {-Grid, 0, DEFAULT_ATOL, Grid}

PairValues ==
    {Scalar(x) : x \in {F(-Grid), F(0), F(Grid), NaN}}
        \cup {Vector(s) : s \in VectorsOver({F(0), F(Grid), NaN}, MaxLen)}

ModValues ==
    {Scalar(x) : x \in FineScalars(MaxVal)}
        \cup {Vector(s) : s \in VectorsOver({F(k * Grid) : k \in 0..MaxVal} \cup {NaN}, MaxLen)}

InitPair ==
    /\ a \in PairValues
    /\ b \in PairValues
    /\ period = Grid
    /\ rtol \in {Rat(0, 1), Rat(1, 1)}
    /\ atol \in {0, Grid}
    /\ equal_nan \in BOOLEAN

InitScalar ==
    /\ a \in {Scalar(x) : x \in FineScalars(MaxScalar)}
    /\ b \in {Scalar(x) : x \in FineScalars(MaxScalar)}
    /\ period = 2 * Grid
    /\ rtol \in RTols
    /\ atol \in ATols
    /\ equal_nan \in BOOLEAN

InitMod ==
    /\ a \in ModValues
    /\ b = Scalar(F(0))
    /\ period \in {k * Grid : k \in 1..MaxPeriod}
    /\ rtol \in {Rat(0, 1), DEFAULT_RTOL}
    /\ atol \in {0, DEFAULT_ATOL, Grid}
    /\ equal_nan \in BOOLEAN

Init ==
    /\ InitPair \/ InitScalar \/ InitMod
    /\ ZERO = ZERO_init
    /\ DEFAULT = DEFAULT_init
    /\ pc = "caller"
    /\ fn = "none"
    /\ self = {}
    /\ ret = {}
    /\ raised = "none"

(***************************************************************************)
(* Calls.  A call runs the whole function and leaves its outcome in ret    *)
(* and raised; Resume hands control back to the caller.                    *)
(***************************************************************************)
\* the instances the caller can hold: the singletons and one of its own
Instances == {ZERO, DEFAULT, Tolerance(rtol, atol, equal_nan)}

Call(f, s, r) ==
    /\ pc = "caller"
    /\ pc' = "returned"
    /\ fn' = f
    /\ self' = s
    /\ ret' = r.val
    /\ raised' = r.raised
    /\ UNCHANGED <<inputs, ZERO, DEFAULT>>

Call_all_close == Call("all_close", {}, all_close(a, b, rtol, atol, equal_nan))

Call_all_near_zero == Call("all_near_zero", {}, all_near_zero(a, rtol, atol, equal_nan))

Call_all_near_zero_mod ==
    Call("all_near_zero_mod", {}, all_near_zero_mod(a, period, rtol, atol, equal_nan))

Call_close ==
    /\ IsScalar(a) /\ IsScalar(b)
    /\ Call("close", {}, Return(close(a.data[1], b.data[1], rtol, atol)))

Call_near_zero ==
    /\ IsScalar(a)
    /\ Call("near_zero", {}, Return(near_zero(a.data[1], atol)))

Call_near_zero_mod ==
    /\ IsScalar(a)
    /\ Call("near_zero_mod", {}, Return(near_zero_mod(a.data[1], period, atol)))

\* the constructor: the new instance is left in self
Call_Tolerance ==
    Call("Tolerance", {Tolerance(rtol, atol, equal_nan)}, [raised |-> "none", val |-> {}])

Call_Tolerance_all_close(t) ==
    Call("Tolerance.all_close", {t}, Tolerance_all_close(t, a, b))

\* variant: the method sets equal_nan on its receiver, which may be a singleton
Call_Tolerance_all_near_zero_writes_self(t) ==
    /\ pc = "caller"
    /\ pc' = "returned"
    /\ fn' = "Tolerance.all_near_zero"
    /\ self' = {[t EXCEPT !.equal_nan = TRUE]}
    /\ ret' = all_near_zero(a, t.rtol, t.atol, TRUE).val
    /\ raised' = all_near_zero(a, t.rtol, t.atol, TRUE).raised
    /\ ZERO' = IF t = ZERO THEN [ZERO EXCEPT !.equal_nan = TRUE] ELSE ZERO
    /\ DEFAULT' = IF t = DEFAULT THEN [DEFAULT EXCEPT !.equal_nan = TRUE] ELSE DEFAULT
    /\ UNCHANGED inputs

Call_Tolerance_all_near_zero(t) ==
    Call("Tolerance.all_near_zero", {t}, Tolerance_all_near_zero(t, a))

Call_Tolerance_all_near_zero_mod(t) ==
    Call("Tolerance.all_near_zero_mod", {t}, Tolerance_all_near_zero_mod(t, a, period))

Call_Tolerance_close(t) ==
    /\ IsScalar(a) /\ IsScalar(b)
    /\ Call("Tolerance.close", {t}, Return(Tolerance_close(t, a.data[1], b.data[1])))

Call_Tolerance_near_zero(t) ==
    /\ IsScalar(a)
    /\ Call("Tolerance.near_zero", {t}, Return(Tolerance_near_zero(t, a.data[1])))

Call_Tolerance_near_zero_mod(t) ==
    /\ IsScalar(a)
    /\ Call("Tolerance.near_zero_mod", {t},
            Return(Tolerance_near_zero_mod(t, a.data[1], period)))

\* the call is over: its result is consumed and the caller goes on
Resume ==
    /\ pc = "returned"
    /\ pc' = "caller"
    /\ fn' = "none"
    /\ self' = {}
    /\ ret' = {}
    /\ raised' = "none"
    /\ UNCHANGED <<inputs, ZERO, DEFAULT>>

Next ==
    \/ Call_all_close
    \/ Call_all_near_zero
    \/ Call_all_near_zero_mod
    \/ Call_close
    \/ Call_near_zero
    \/ Call_near_zero_mod
    \/ Call_Tolerance
    \/ \E t \in Instances : Call_Tolerance_all_close(t)
    \/ \E t \in Instances : Call_Tolerance_all_near_zero(t)
    \/ \E t \in Instances : Call_Tolerance_all_near_zero_mod(t)
    \/ \E t \in Instances : Call_Tolerance_close(t)
    \/ \E t \in Instances : Call_Tolerance_near_zero(t)
    \/ \E t \in Instances : Call_Tolerance_near_zero_mod(t)
    \/ Resume

Spec == Init /\ [][Next]_vars

(***************************************************************************)
(* The claims.  They are stated in the specification's terms, with helpers *)
(* of their own: a two-sided bound instead of abs, and the folded value    *)
(* characterised by its interval and its congruence.                       *)
(***************************************************************************)
Returned(f) == pc = "returned" /\ fn = f

Mag(y) == IF y.v >= 0 THEN y.v ELSE -y.v

\* floor(atol + rtol * |y|), as a count
Bound(y, r, t) == t + ((r.num * Mag(y)) \div r.den)

\* |x - y| <= atol + rtol * |y|, false when either is NaN
Near(x, y, r, t) ==
    /\ ~x.nan
    /\ ~y.nan
    /\ x.v - y.v <= Bound(y, r, t)
    /\ y.v - x.v <= Bound(y, r, t)

NonNegative(r, t) == r.num >= 0 /\ r.den > 0 /\ t >= 0

\* the positions of a and b, paired under broadcasting
Positions == 1..(IF Len(a.data) = 1 THEN Len(b.data) ELSE Len(a.data))

ElemA(i) == IF Len(a.data) = 1 THEN a.data[1] ELSE a.data[i]

ElemB(i) == IF Len(b.data) = 1 THEN b.data[1] ELSE b.data[i]

ShapesCompatible ==
    \/ IsScalar(a)
    \/ IsScalar(b)
    \/ Len(a.data) = Len(b.data)
    \/ Len(a.data) = 1
    \/ Len(b.data) = 1

\* v folded by p is v - k * p, for the integer k that puts it in [-p/2, p/2)
KMax == MaxVal + 1

InHalfOpen(f, p) == -p <= 2 * f /\ 2 * f < p

HasFold(v, p) == \E k \in (-KMax)..KMax : InHalfOpen(v - k * p, p)

\* the folded value of v: v less the multiple of p that brings it in range
FoldedValue(v, p) ==
    LET k == CHOOSE k \in (-KMax)..KMax : InHalfOpen(v - k * p, p)
    IN  v - k * p

IsMultiple(v, p) == \E k \in (-KMax)..KMax : v = k * p

\* C1: all_close returns true iff every pair of corresponding elements x, y
\* satisfies |x - y| <= atol + rtol * |y| (rtol, atol >= 0), where a pair of
\* NaNs satisfies the bound when equal_nan is true and any NaN fails it when
\* equal_nan is false.
C1_AllCloseIffEveryPairWithinBound ==
    (Returned("all_close") /\ raised = "none" /\ NonNegative(rtol, atol)) =>
        /\ ret = {\A i \in Positions :
                    \/ Near(ElemA(i), ElemB(i), rtol, atol)
                    \/ equal_nan /\ ElemA(i).nan /\ ElemB(i).nan}
        /\ (~equal_nan /\ \E i \in Positions : ElemA(i).nan \/ ElemB(i).nan)
              => ret = {FALSE}

C1_Witness ==
    /\ Returned("all_close")
    /\ ret = {TRUE}
    /\ equal_nan
    /\ atol = 0
    /\ Len(a.data) = 2
    /\ Len(b.data) = 2
    /\ \E i \in Positions : ElemA(i).nan /\ ElemB(i).nan
    /\ \E i \in Positions : ~ElemA(i).nan /\ ~ElemB(i).nan /\ ElemA(i) # ElemB(i)

\* the free function a method stands for, called with the instance's stored
\* rtol, atol and equal_nan
FreeOutcome(f, t) ==
    CASE f = "Tolerance.all_close" -> all_close(a, b, t.rtol, t.atol, t.equal_nan)
      [] f = "Tolerance.all_near_zero" -> all_near_zero(a, t.rtol, t.atol, t.equal_nan)
      [] f = "Tolerance.all_near_zero_mod" ->
             all_near_zero_mod(a, period, t.rtol, t.atol, t.equal_nan)
      [] f = "Tolerance.close" -> Return(close(a.data[1], b.data[1], t.rtol, t.atol))
      [] f = "Tolerance.near_zero" -> Return(near_zero(a.data[1], t.atol))
      [] f = "Tolerance.near_zero_mod" -> Return(near_zero_mod(a.data[1], period, t.atol))

Methods ==
    {"Tolerance.all_close", "Tolerance.all_near_zero", "Tolerance.all_near_zero_mod",
     "Tolerance.close", "Tolerance.near_zero", "Tolerance.near_zero_mod"}

\* C2: each of the six Tolerance methods returns what the free function of
\* the same name returns when called with the instance's stored rtol, atol
\* and equal_nan.
C2_MethodsMirrorFreeFunctions ==
    (pc = "returned" /\ fn \in Methods) =>
        \A t \in self :
            /\ ret = FreeOutcome(fn, t).val
            /\ raised = FreeOutcome(fn, t).raised

\* C3: whatever has been called, Tolerance.ZERO has rtol = 0, atol = 0,
\* equal_nan = false and Tolerance.DEFAULT has rtol = 1e-5, atol = 1e-8,
\* equal_nan = false.
C3_SingletonsNeverMutated ==
    /\ ZERO = [rtol |-> Rat(0, 1), atol |-> 0, equal_nan |-> FALSE]
    /\ DEFAULT = [rtol |-> Rat(1, 100000), atol |-> 100, equal_nan |-> FALSE]

C3_Witness ==
    /\ pc = "returned"
    /\ fn = "Tolerance.all_near_zero"
    /\ self = {ZERO}
    /\ ret = {TRUE}

\* C4 as claimed: every Tolerance instance that exists has rtol >= 0 and
\* atol >= 0, whatever the constructor was called with.
C4_EveryInstanceNonNegative ==
    \A t \in self \cup {ZERO, DEFAULT} : t.rtol.num >= 0 /\ t.atol >= 0

\* C4 amended: the constructor stores its arguments as given, so an instance
\* has rtol >= 0 and atol >= 0 exactly when it was constructed with such
\* arguments; the two singletons have both.
C4_ConstructorStoresArguments ==
    /\ Returned("Tolerance") =>
          \A t \in self :
              /\ t.rtol = rtol /\ t.atol = atol /\ t.equal_nan = equal_nan
              /\ NonNegative(rtol, atol) <=> (t.rtol.num >= 0 /\ t.atol >= 0)
    /\ \A t \in {ZERO, DEFAULT} : t.rtol.num >= 0 /\ t.atol >= 0

C4_Witness ==
    /\ Returned("Tolerance")
    /\ atol = DEFAULT_ATOL
    /\ rtol = Rat(1, 2)
    /\ \E t \in self : t.atol > 0 /\ t.rtol.num > 0

\* C5: for period > 0, all_near_zero_mod folds each element v to the f in
\* [-period/2, period/2) that differs from v by a multiple of period and
\* returns whether all_near_zero holds of the folded values; multiples of
\* period are accepted, and an element at offset 3 with period 4 (here in
\* steps of 1e-4: folded to -1e-4) is rejected under the default tolerances.
C5_AllNearZeroModFolds ==
    Returned("all_near_zero_mod") =>
        LET folded == [shape |-> a.shape,
                       data |-> [i \in 1..Len(a.data) |->
                                    IF a.data[i].nan THEN NaN
                                    ELSE F(FoldedValue(a.data[i].v, period))]]
        IN  /\ period > 0
            /\ \A i \in 1..Len(a.data) :
                   ~a.data[i].nan => HasFold(a.data[i].v, period)
            /\ raised = "none"
            /\ ret = all_near_zero(folded, rtol, atol, equal_nan).val
            /\ (atol >= 0 /\ \A i \in 1..Len(a.data) :
                                 ~a.data[i].nan /\ IsMultiple(a.data[i].v, period))
                  => ret = {TRUE}
            /\ (/\ period = 4 * Grid
                /\ rtol = DEFAULT_RTOL /\ atol = DEFAULT_ATOL
                /\ \E i \in 1..Len(a.data) : a.data[i] = F(3 * Grid))
                  => ret = {FALSE}

C5_Witness ==
    /\ Returned("all_near_zero_mod")
    /\ a = Vector(<<F(4 * Grid), F(3 * Grid)>>)
    /\ period = 4 * Grid
    /\ rtol = DEFAULT_RTOL /\ atol = DEFAULT_ATOL /\ ~equal_nan
    /\ ret = {FALSE}

\* C6: close(a, b) returns true iff |a - b| <= atol + rtol * |b| (rtol,
\* atol >= 0), and false whenever a or b is NaN.
C6_CloseIffWithinBound ==
    (Returned("close") /\ NonNegative(rtol, atol)) =>
        /\ raised = "none"
        /\ ret = {Near(a.data[1], b.data[1], rtol, atol)}
        /\ (a.data[1].nan \/ b.data[1].nan) => ret = {FALSE}

C6_Witness ==
    /\ Returned("close")
    /\ ret = {TRUE}
    /\ atol = 0
    /\ rtol = Rat(1, 2)
    /\ ~a.data[1].nan /\ ~b.data[1].nan
    /\ a.data[1] # b.data[1]

\* C7: for period > 0 and atol >= 0, near_zero_mod(a) returns true iff
\* |f| <= atol for the folded value f of a in [-period/2, period/2); it
\* returns true for every integer multiple of period.
C7_NearZeroModFolds ==
    (Returned("near_zero_mod") /\ atol >= 0) =>
        /\ period > 0
        /\ raised = "none"
        /\ a.data[1].nan => ret = {FALSE}
        /\ ~a.data[1].nan =>
              /\ HasFold(a.data[1].v, period)
              /\ LET f == FoldedValue(a.data[1].v, period)
                 IN  ret = {-atol <= f /\ f <= atol}
              /\ IsMultiple(a.data[1].v, period) => ret = {TRUE}

C7_Witness ==
    /\ Returned("near_zero_mod")
    /\ a = Scalar(F(4 * Grid))
    /\ period = 2 * Grid
    /\ atol = 0
    /\ ret = {TRUE}

\* C8: with both tolerances zero the comparison is exact equality: for
\* NaN-free scalars ZERO.close(a, b) is true iff a = b, so it is false for
\* a and a + 1e-10, for which DEFAULT.close is true.
C8_ZeroIsExactDefaultIsNot ==
    (Returned("Tolerance.close") /\ ~a.data[1].nan /\ ~b.data[1].nan) =>
        /\ self = {ZERO} => ret = {a.data[1].v = b.data[1].v}
        /\ (self = {ZERO} /\ b.data[1].v = a.data[1].v + 1) => ret = {FALSE}
        /\ (self = {DEFAULT} /\ b.data[1].v = a.data[1].v + 1) => ret = {TRUE}

C8_Witness ==
    /\ Returned("Tolerance.close")
    /\ self = {ZERO}
    /\ a = Scalar(F(Grid))
    /\ b = Scalar(F(Grid + 1))
    /\ ret = {FALSE}

\* C9: all_close ends in a shape error, returning no boolean, exactly when
\* the shapes of a and b cannot be broadcast together; otherwise it returns
\* a boolean and raises nothing.
C9_ShapeMismatchRaises ==
    Returned("all_close") =>
        /\ ~ShapesCompatible => (raised = "ValueError" /\ ret = {})
        /\ ShapesCompatible => (raised = "none" /\ ret \in {{TRUE}, {FALSE}})

C9_Witness ==
    /\ Returned("all_close")
    /\ Len(a.data) = 2
    /\ Len(b.data) = 0
    /\ raised = "ValueError"
    /\ ret = {}

\* C10: closeness is reflexive for non-negative tolerances, zero included:
\* close(a, a) is true for every real a, and all_close(a, a) is true for
\* every NaN-free array a and either value of equal_nan.
C10_Reflexive ==
    (/\ pc = "returned"
     /\ a = b
     /\ \A i \in 1..Len(a.data) : ~a.data[i].nan
     /\ NonNegative(rtol, atol)) =>
        /\ fn = "close" => ret = {TRUE}
        /\ fn = "all_close" => (ret = {TRUE} /\ raised = "none")

C10_Witness ==
    /\ Returned("all_close")
    /\ a = b
    /\ a = Vector(<<F(0), F(Grid)>>)
    /\ rtol = Rat(0, 1)
    /\ atol = 0
    /\ ret = {TRUE}

====
